---- MODULE Spec2Model ----
(***************************************************************************)
(* The content catalog of AnkJyotish: the in-memory contentData object,    *)
(* its mirror content-data.json, the uploads directory and the HTTP        *)
(* handlers of server-updated.js (authenticated) and of server.js (the     *)
(* older variant without authentication).  One action is one request,      *)
(* handled from the first middleware to the response.                      *)
(***************************************************************************)
EXTENDS Integers, Sequences, FiniteSets, TLC

VARIABLES variant, up, now, contentData, dataFile, uploads, request, response

vars == <<variant, up, now, contentData, dataFile, uploads, request, response>>

-----------------------------------------------------------------------------
(* Bounds of the model *)

MaxClock == 2
MaxItems == 2
MaxStored == 1

-----------------------------------------------------------------------------
(* JavaScript values *)

Undefined == "<undefined>"
Null == "<null>"
NaN == 0 - 1

DefaultFileSize == 5242880

Truthy(v) == v \notin {Undefined, Null, ""}

\* a || b
OrElse(a, b) == IF Truthy(a) THEN a ELSE b

ToLowerCase(s) ==
    CASE s = "Basic" -> "basic"
      [] s = "BASIC" -> "basic"
      [] s = "Advanced" -> "advanced"
      [] s = "ADVANCED" -> "advanced"
      [] s = "Premium" -> "premium"
      [] s = "Constructor" -> "constructor"
      [] OTHER -> s

\* parseInt: the leading decimal digits of the text, NaN when there are none
ParseInt(s) ==
    CASE s = "1" -> 1
      [] s = "2" -> 2
      [] s = "3" -> 3
      [] s = "4" -> 4
      [] s = "999999" -> 999999
      [] OTHER -> NaN

\* new Date().toISOString() at clock value t (milliseconds since the epoch)
ToISOString(t) == "1970-01-01T00:00:00.00" \o ToString(t) \o "Z"

\* path.extname
ExtName(name) ==
    CASE name = "intro.pdf" -> ".pdf"
      [] name = "big.mp4" -> ".mp4"
      [] OTHER -> ""

\* obj[key] on a plain object: own properties first, then Object.prototype
ProtoKeys == {"constructor", "__proto__"}

-----------------------------------------------------------------------------
(* The catalog *)

Categories == {"basic", "advanced"}

EmptyCatalog == [basic |-> <<>>, advanced |-> <<>>]

ItemKeys == <<"id", "title", "description", "category", "type", "filename",
              "originalName", "uploadDate", "uploadedBy", "updatedAt", "updatedBy">>

KeySet == {ItemKeys[i] : i \in 1..Len(ItemKeys)}

\* item[k], undefined when the item has no such property
Field(item, k) == IF k \in DOMAIN item THEN item[k] ELSE Undefined

\* the property exists and is not undefined (id is always a number)
Has(item, k) == k \in DOMAIN item /\ (k = "id" \/ item[k] # Undefined)

SameFields(a, b) ==
    \A k \in KeySet : Has(a, k) = Has(b, k) /\ (Has(a, k) => a[k] = b[k])

DeepEqualList(xs, ys) ==
    Len(xs) = Len(ys) /\ \A i \in 1..Len(xs) : SameFields(xs[i], ys[i])

DeepEqual(c, d) ==
    DOMAIN c = DOMAIN d /\ \A b \in DOMAIN c : DeepEqualList(c[b], d[b])

TotalItems(c) == Len(c.basic) + Len(c.advanced)

\* array.findIndex(item => item.id === id), 0 standing for -1
FindIndex(list, id) ==
    IF \E i \in 1..Len(list) : list[i].id = id
    THEN CHOOSE i \in 1..Len(list) :
            list[i].id = id /\ \A j \in 1..(i - 1) : list[j].id # id
    ELSE 0

\* array.filter(item => item.id !== id)
RECURSIVE FilterOut(_, _)
FilterOut(list, id) ==
    IF list = <<>> THEN <<>>
    ELSE IF Head(list).id = id THEN FilterOut(Tail(list), id)
         ELSE <<Head(list)>> \o FilterOut(Tail(list), id)

-----------------------------------------------------------------------------
(* content-data.json: JSON.stringify on save, JSON.parse on start *)

\* the JSON token of one property value
JsonValue(k, v) ==
    IF k = "id" THEN [t |-> "number", v |-> ToString(v)]
    ELSE IF v = Null THEN [t |-> "null", v |-> "null"]
    ELSE [t |-> "string", v |-> v]

\* the JavaScript value of one JSON token
JsValue(tok) ==
    IF tok.t = "number" THEN CHOOSE n \in 0..MaxClock : ToString(n) = tok.v
    ELSE IF tok.t = "null" THEN Null
    ELSE tok.v

\* a serializer that writes an undefined property as null
StringifyItemUndefinedAsNull(item) ==
    LET keys == SelectSeq(ItemKeys, LAMBDA k : k \in DOMAIN item)
    IN  [i \in 1..Len(keys) |->
            <<keys[i], IF Has(item, keys[i])
                       THEN JsonValue(keys[i], item[keys[i]])
                       ELSE [t |-> "null", v |-> "null"]>>]

\* an object is written as its properties in insertion order; a property whose
\* value is undefined is not written
StringifyItem(item) ==
    LET keys == SelectSeq(ItemKeys, LAMBDA k : Has(item, k))
    IN  [i \in 1..Len(keys) |-> <<keys[i], JsonValue(keys[i], item[keys[i]])>>]

Stringify(catalog) ==
    [b \in DOMAIN catalog |->
        [i \in 1..Len(catalog[b]) |-> StringifyItem(catalog[b][i])]]

ParseItem(props) ==
    [k \in {props[i][1] : i \in 1..Len(props)} |->
        JsValue(props[CHOOSE i \in 1..Len(props) : props[i][1] = k][2])]

Parse(text) ==
    [b \in DOMAIN text |-> [i \in 1..Len(text[b]) |-> ParseItem(text[b][i])]]

NoDataFile == [state |-> "absent", text |-> Stringify(EmptyCatalog)]

\* fs.writeFileSync either writes the whole text, or throws after the file was
\* opened and truncated (ENOSPC)
WriteOutcomes == {"ok", "ENOSPC"}

saveData(catalog, file, io) ==
    IF io = "ok" THEN [state |-> "json", text |-> Stringify(catalog)]
    ELSE [state |-> "truncated", text |-> Stringify(EmptyCatalog)]

\* the catalog after the start-up code; JSON.parse throws on a truncated file
StartOk(file) == file.state # "truncated"

LoadData(file) ==
    IF file.state = "json" THEN Parse(file.text) ELSE EmptyCatalog

-----------------------------------------------------------------------------
(* Requests and responses *)

NoToken == ""

Tokens == {NoToken, "garbage", "student-token", "admin-token"}

NoBody == [title |-> Undefined, description |-> Undefined,
           category |-> Undefined, type |-> Undefined]

NoUpload == [originalname |-> Undefined, size |-> 0]

NoReqFile == [filename |-> Undefined, originalname |-> Undefined]

Request(method, path, param, token, body, file) ==
    [method |-> method, path |-> path, param |-> param, token |-> token,
     body |-> body, file |-> file]

Respond(status, kind, error, message, data, catalog) ==
    [status |-> status, kind |-> kind, error |-> error, message |-> message,
     data |-> data, catalog |-> catalog]

ErrorResponse(status, error) ==
    Respond(status, "error", error, "", <<>>, EmptyCatalog)

SuccessResponse(message, data) ==
    Respond(200, "success", "", message, data, EmptyCatalog)

NoResponse == Respond(0, "none", "", "", <<>>, EmptyCatalog)

\* what one request leaves behind
Outcome(cd, df, ups, res) ==
    [contentData |-> cd, dataFile |-> df, uploads |-> ups, response |-> res]

Rejected(res) == Outcome(contentData, dataFile, uploads, res)

IoError(io) == io \o ": no space left on device, write"

-----------------------------------------------------------------------------
(* middleware/auth *)

NoUser == [username |-> Undefined, role |-> Undefined]

\* the identity a token verifies to
Verify(token) ==
    CASE token = "admin-token" -> [username |-> "admin", role |-> "admin"]
      [] token = "student-token" -> [username |-> "student", role |-> "user"]
      [] OTHER -> NoUser

\* 0 when the request passes both gates, else the status of the gate that stops it
AuthGate(token) ==
    IF Verify(token) = NoUser THEN 401
    ELSE IF Verify(token).role # "admin" THEN 403
    ELSE 0

AuthError(status) ==
    IF status = 401 THEN ErrorResponse(401, "Access token required")
    ELSE ErrorResponse(403, "Admin access required")

-----------------------------------------------------------------------------
(* multer *)

\* Math.round(Math.random() * 1E9)
RandomSuffixes == {7}

\* MAX_FILE_SIZE of the environment (unset)
MaxFileSizeEnv == Undefined

\* limits.fileSize: parseInt(process.env.MAX_FILE_SIZE) || 5242880
fileSize ==
    IF ParseInt(MaxFileSizeEnv) = NaN \/ ParseInt(MaxFileSizeEnv) = 0
    THEN DefaultFileSize
    ELSE ParseInt(MaxFileSizeEnv)

\* storage.destination and storage.filename
StoredFile(body, file, t, rnd) ==
    [dir |-> OrElse(body.category, "general"),
     name |-> ToString(t) \o "-" \o ToString(rnd) \o ExtName(file.originalname)]

\* busboy stops a file that grows past limits.fileSize; multer passes the error on
TooLarge(file, limit) == file # NoUpload /\ file.size > limit

ReqFile(body, file, t, rnd) ==
    IF file = NoUpload THEN NoReqFile
    ELSE [filename |-> StoredFile(body, file, t, rnd).name,
          originalname |-> file.originalname]

AfterMulter(body, file, t, rnd) ==
    IF file = NoUpload THEN uploads
    ELSE uploads \cup {StoredFile(body, file, t, rnd)}

-----------------------------------------------------------------------------
(* The handlers of server-updated.js *)

\* GET /api/content
GetContentHandler ==
    Rejected(Respond(200, "catalog", "", "", <<>>, contentData))

\* contentData[category] is truthy
Known(catalog, category) ==
    category \in DOMAIN catalog \/ category \in ProtoKeys

\* GET /api/content/:category
GetCategoryHandler(param) ==
    LET category == ToLowerCase(param)
    IN  IF Known(contentData, category)
        THEN IF category \in DOMAIN contentData
             THEN Rejected(Respond(200, "list", "", "", contentData[category],
                                   EmptyCatalog))
             ELSE Rejected(Respond(200, "prototype", "", "", <<>>, EmptyCatalog))
        ELSE Rejected(ErrorResponse(404, "Category not found"))

\* a contentItem that keeps the category as it was sent
ContentItemRawCategory(body, file, user, t) ==
    [id |-> t,
     title |-> body.title,
     description |-> body.description,
     category |-> body.category,
     type |-> body.type,
     filename |-> IF file = NoReqFile THEN Null ELSE file.filename,
     originalName |-> IF file = NoReqFile THEN Null ELSE file.originalname,
     uploadDate |-> ToISOString(t),
     uploadedBy |-> user.username]

\* the contentItem literal of the upload handler
ContentItem(body, file, user, t) ==
    [id |-> t,
     title |-> body.title,
     description |-> body.description,
     category |-> ToLowerCase(body.category),
     type |-> body.type,
     filename |-> IF file = NoReqFile THEN Null ELSE file.filename,
     originalName |-> IF file = NoReqFile THEN Null ELSE file.originalname,
     uploadDate |-> ToISOString(t),
     uploadedBy |-> user.username]

\* the bucket the upload handler pushes to, Undefined when it pushes to none
Bucket(category) ==
    IF ToLowerCase(category) = "basic" THEN "basic"
    ELSE IF ToLowerCase(category) = "advanced" THEN "advanced"
    ELSE Undefined

Push(catalog, bucket, item) ==
    [catalog EXCEPT ![bucket] = Append(@, item)]

\* saveData() and the response after it, inside try/catch
SaveAndRespond(cd, ups, io, res) ==
    IF io = "ok"
    THEN Outcome(cd, saveData(cd, dataFile, io), ups, res)
    ELSE Outcome(cd, saveData(cd, dataFile, io), ups, ErrorResponse(500, IoError(io)))

\* POST /api/upload, after authenticateToken, requireAdmin and upload.single
UploadHandler(body, file, ups, user, t, io) ==
    IF ~Truthy(body.title) \/ ~Truthy(body.category) \/ ~Truthy(body.type)
    THEN Outcome(contentData, dataFile, ups,
                 ErrorResponse(400, "Missing required fields"))
    ELSE LET contentItem == ContentItem(body, file, user, t)
         IN  IF Bucket(body.category) = Undefined
             THEN Outcome(contentData, dataFile, ups,
                          ErrorResponse(400, "Invalid category. Use \"basic\" or \"advanced\""))
             ELSE SaveAndRespond(Push(contentData, Bucket(body.category), contentItem),
                                 ups, io,
                                 SuccessResponse("Content uploaded successfully",
                                                 <<contentItem>>))

\* an update that takes the four properties from the body as they are
UpdatedItemFromBody(item, body, user, t) ==
    [k \in DOMAIN item \cup {"title", "description", "category", "type",
                             "updatedAt", "updatedBy"} |->
        CASE k = "title" -> body.title
          [] k = "description" -> body.description
          [] k = "category" -> body.category
          [] k = "type" -> body.type
          [] k = "updatedAt" -> ToISOString(t)
          [] k = "updatedBy" -> user.username
          [] OTHER -> item[k]]

\* the object literal of the update handler
UpdatedItem(item, body, user, t) ==
    [k \in DOMAIN item \cup {"title", "description", "category", "type",
                             "updatedAt", "updatedBy"} |->
        CASE k = "title" -> OrElse(body.title, Field(item, "title"))
          [] k = "description" -> OrElse(body.description, Field(item, "description"))
          [] k = "category" -> OrElse(body.category, Field(item, "category"))
          [] k = "type" -> OrElse(body.type, Field(item, "type"))
          [] k = "updatedAt" -> ToISOString(t)
          [] k = "updatedBy" -> user.username
          [] OTHER -> item[k]]

UpdateIn(list, id, body, user, t) ==
    IF FindIndex(list, id) = 0 THEN list
    ELSE [list EXCEPT ![FindIndex(list, id)] = UpdatedItem(@, body, user, t)]

\* PUT /api/content/:id, after authenticateToken and requireAdmin
UpdateHandler(param, body, user, t, io) ==
    LET id == ParseInt(param)
        updated == FindIndex(contentData.basic, id) # 0
                     \/ FindIndex(contentData.advanced, id) # 0
        cd == [basic |-> UpdateIn(contentData.basic, id, body, user, t),
               advanced |-> UpdateIn(contentData.advanced, id, body, user, t)]
    IN  IF ~updated
        THEN Rejected(ErrorResponse(404, "Content not found"))
        ELSE SaveAndRespond(cd, uploads, io,
                            SuccessResponse("Content updated successfully", <<>>))

\* the two filters of the delete handlers
Remove(catalog, id) ==
    [basic |-> FilterOut(catalog.basic, id),
     advanced |-> FilterOut(catalog.advanced, id)]

\* DELETE /api/content/:id, after authenticateToken and requireAdmin
DeleteHandler(param, io) ==
    LET id == ParseInt(param)
        cd == Remove(contentData, id)
        deleted == Len(cd.basic) # Len(contentData.basic)
                     \/ Len(cd.advanced) # Len(contentData.advanced)
    IN  IF ~deleted
        THEN Outcome(cd, dataFile, uploads, ErrorResponse(404, "Content not found"))
        ELSE SaveAndRespond(cd, uploads, io,
                            SuccessResponse("Content deleted successfully", <<>>))

\* the error handling middleware
ErrorMiddleware == ErrorResponse(500, "Something went wrong!")

\* the chain authenticateToken, requireAdmin, upload.single('file'), handler
UploadRoute(token, body, file, t, rnd, io) ==
    IF AuthGate(token) # 0 THEN Rejected(AuthError(AuthGate(token)))
    ELSE IF TooLarge(file, fileSize) THEN Rejected(ErrorMiddleware)
    ELSE UploadHandler(body, ReqFile(body, file, t, rnd),
                       AfterMulter(body, file, t, rnd), Verify(token), t, io)

UpdateRoute(token, param, body, t, io) ==
    IF AuthGate(token) # 0 THEN Rejected(AuthError(AuthGate(token)))
    ELSE UpdateHandler(param, body, Verify(token), t, io)

DeleteRoute(token, param, io) ==
    IF AuthGate(token) # 0 THEN Rejected(AuthError(AuthGate(token)))
    ELSE DeleteHandler(param, io)

-----------------------------------------------------------------------------
(* The handlers of server.js *)

\* the contentItem literal of the older upload handler
OldContentItem(body, file, t) ==
    [id |-> t,
     title |-> body.title,
     description |-> body.description,
     category |-> ToLowerCase(body.category),
     type |-> body.type,
     filename |-> IF file = NoReqFile THEN Null ELSE file.filename,
     originalName |-> IF file = NoReqFile THEN Null ELSE file.originalname,
     uploadDate |-> ToISOString(t)]

\* POST /api/upload after upload.single, which has no size limit
OldUploadHandler(body, file, ups, t, io) ==
    IF ~Truthy(body.title) \/ ~Truthy(body.category) \/ ~Truthy(body.type)
    THEN Outcome(contentData, dataFile, ups,
                 ErrorResponse(400, "Missing required fields"))
    ELSE LET contentItem == OldContentItem(body, file, t)
             cd == IF Bucket(body.category) = Undefined THEN contentData
                   ELSE Push(contentData, Bucket(body.category), contentItem)
         IN  SaveAndRespond(cd, ups, io,
                            SuccessResponse("Content uploaded successfully",
                                            <<contentItem>>))

OldUploadRoute(body, file, t, rnd, io) ==
    OldUploadHandler(body, ReqFile(body, file, t, rnd),
                     AfterMulter(body, file, t, rnd), t, io)

\* DELETE /api/content/:id; a throwing saveData reaches the default error handler
OldDeleteHandler(param, io) ==
    LET cd == Remove(contentData, ParseInt(param))
    IN  IF io = "ok"
        THEN Outcome(cd, saveData(cd, dataFile, io), uploads,
                     SuccessResponse("Content deleted successfully", <<>>))
        ELSE Outcome(cd, saveData(cd, dataFile, io), uploads,
                     ErrorResponse(500, IoError(io)))

-----------------------------------------------------------------------------------------------------------------------------------------------------
(* Inputs *)

BasicIntro ==
    [title |-> "Intro", description |-> Undefined, category |-> "Basic",
     type |-> "pdf"]

AdvancedNumbers ==
    [title |-> "Intro", description |-> "Numbers", category |-> "advanced",
     type |-> "pdf"]

UntitledBasic ==
    [title |-> Undefined, description |-> Undefined, category |-> "basic",
     type |-> "pdf"]

PremiumIntro ==
    [title |-> "Intro", description |-> Undefined, category |-> "Premium",
     type |-> "pdf"]

IntroPdf == [originalname |-> "intro.pdf", size |-> 2097152]

BigMp4 == [originalname |-> "big.mp4", size |-> 6291456]

Upload(token, body, file) == [token |-> token, body |-> body, file |-> file]

Uploads ==
    {Upload("admin-token", BasicIntro, IntroPdf),
     Upload("admin-token", AdvancedNumbers, NoUpload),
     Upload("admin-token", UntitledBasic, NoUpload),
     Upload("admin-token", PremiumIntro, NoUpload),
     Upload("admin-token", BasicIntro, BigMp4),
     Upload(NoToken, BasicIntro, IntroPdf),
     Upload("garbage", BasicIntro, IntroPdf),
     Upload("student-token", BasicIntro, IntroPdf)}

OldUploads ==
    {Upload(NoToken, BasicIntro, IntroPdf),
     Upload(NoToken, AdvancedNumbers, NoUpload),
     Upload(NoToken, UntitledBasic, NoUpload),
     Upload(NoToken, PremiumIntro, NoUpload),
     Upload(NoToken, BasicIntro, BigMp4)}

Retitle ==
    [title |-> "", description |-> "Changed", category |-> "advanced",
     type |-> Undefined]

UpdateBodies == {Retitle}

IdParams == {"1", "2", "999999"}

ById(token, param) == [token |-> token, param |-> param]

ByIds ==
    {ById("admin-token", p) : p \in IdParams}
        \cup {ById(t, "1") : t \in {NoToken, "student-token"}}

OldByIds == {ById(NoToken, p) : p \in IdParams}

CategoryParams == {"Basic", "unknown", "constructor"}

-----------------------------------------------------------------------------
(* The state machine *)

NoRequest == Request("", "", "", NoToken, NoBody, NoUpload)

Init ==
    /\ variant \in {"server.js", "server-updated.js"}
    /\ up = TRUE
    /\ now = 1
    /\ contentData = LoadData(NoDataFile)
    /\ dataFile = NoDataFile
    /\ uploads = {}
    /\ request = NoRequest
    /\ response = NoResponse

Handle(req, out) ==
    /\ up
    /\ request' = req
    /\ contentData' = out.contentData
    /\ dataFile' = out.dataFile
    /\ uploads' = out.uploads
    /\ response' = out.response
    /\ UNCHANGED <<variant, up, now>>

GetContent ==
    /\ variant \in {"server.js", "server-updated.js"}
    /\ Handle(Request("GET", "/api/content", "", NoToken, NoBody, NoUpload),
              GetContentHandler)

GetContentByCategory ==
    /\ variant = "server-updated.js"
    /\ \E param \in CategoryParams :
          Handle(Request("GET", "/api/content/:category", param, NoToken, NoBody,
                         NoUpload),
                 GetCategoryHandler(param))

CanUpload(file) ==
    /\ TotalItems(contentData) < MaxItems
    /\ file # NoUpload => Cardinality(uploads) < MaxStored

PostUpload ==
    /\ variant = "server-updated.js"
    /\ \E u \in Uploads, rnd \in RandomSuffixes, io \in WriteOutcomes :
          /\ CanUpload(u.file)
          /\ Handle(Request("POST", "/api/upload", "", u.token, u.body, u.file),
                    UploadRoute(u.token, u.body, u.file, now, rnd, io))

PutContent ==
    /\ variant = "server-updated.js"
    /\ \E r \in ByIds, body \in UpdateBodies, io \in WriteOutcomes :
          Handle(Request("PUT", "/api/content/:id", r.param, r.token, body,
                         NoUpload),
                 UpdateRoute(r.token, r.param, body, now, io))

DeleteContent ==
    /\ variant = "server-updated.js"
    /\ \E r \in ByIds, io \in WriteOutcomes :
          Handle(Request("DELETE", "/api/content/:id", r.param, r.token, NoBody,
                         NoUpload),
                 DeleteRoute(r.token, r.param, io))

OldPostUpload ==
    /\ variant = "server.js"
    /\ \E u \in OldUploads, rnd \in RandomSuffixes, io \in WriteOutcomes :
          /\ CanUpload(u.file)
          /\ Handle(Request("POST", "/api/upload", "", u.token, u.body, u.file),
                    OldUploadRoute(u.body, u.file, now, rnd, io))

OldDeleteContent ==
    /\ variant = "server.js"
    /\ \E r \in OldByIds, io \in WriteOutcomes :
          Handle(Request("DELETE", "/api/content/:id", r.param, r.token, NoBody,
                         NoUpload),
                 OldDeleteHandler(r.param, io))

\* the clock Date.now() reads
Tick ==
    /\ now < MaxClock
    /\ now' = now + 1
    /\ UNCHANGED <<variant, up, contentData, dataFile, uploads, request, response>>

\* the process is started again: the module-level code runs
Restart ==
    /\ up' = StartOk(dataFile)
    /\ contentData' = LoadData(dataFile)
    /\ request' = NoRequest
    /\ response' = NoResponse
    /\ UNCHANGED <<variant, now, dataFile, uploads>>

Next ==
    \/ GetContent
    \/ GetContentByCategory
    \/ PostUpload
    \/ PutContent
    \/ DeleteContent
    \/ OldPostUpload
    \/ OldDeleteContent
    \/ Tick
    \/ Restart

Spec == Init /\ [][Next]_vars

-----------------------------------------------------------------------------
(* Vocabulary of the properties *)

Updated == variant = "server-updated.js"

\* the step handles a request: every handler leaves the clock alone and
\* records the request, Tick moves the clock and Restart clears the request
Handled == now' = now /\ request'.method # ""

UploadStep == Handled /\ request'.method = "POST"

PutStep == Handled /\ request'.method = "PUT"

DeleteStep == Handled /\ request'.method = "DELETE"

\* the step starts the process again
Restarted == request'.method = "" /\ Restart

\* the step handles a request to a mutating endpoint
MutatingStep == UploadStep \/ PutStep \/ DeleteStep

Mutating(req) == req.method \in {"POST", "PUT", "DELETE"}

\* the request passes the gates in front of the handler, where there are any
Admitted(req) == Updated => AuthGate(req.token) = 0

\* title, category and type present and the category one of the two known
ValidUpload(body) ==
    /\ Truthy(body.title) /\ Truthy(body.category) /\ Truthy(body.type)
    /\ ToLowerCase(body.category) \in Categories

Other(category) == IF category = "basic" THEN "advanced" ELSE "basic"

Contains(list, item) == \E i \in 1..Len(list) : list[i] = item

Matches(catalog, id) ==
    \E b \in Categories : \E i \in 1..Len(catalog[b]) : catalog[b][i].id = id

Persisted == dataFile.state = "json" /\ dataFile.text = Stringify(contentData)

-----------------------------------------------------------------------------
(* C1: after a successful upload that passes validation, the created item    *)
(* carries the lowercased input category, is the last element of the bucket  *)
(* of that name, is absent from the other bucket, and is returned by         *)
(* GET /api/content/:category for that category and by GET /api/content      *)
(* under the matching key.                                                   *)

C1_UploadLandsInBucket ==
    (request.method = "POST" /\ response.status = 200 /\ ValidUpload(request.body))
    => LET item == response.data[1]
           category == ToLowerCase(request.body.category)
       IN  /\ item.category = category
           /\ Len(contentData[category]) > 0
           /\ contentData[category][Len(contentData[category])] = item
           /\ ~Contains(contentData[Other(category)], item)
           /\ Contains(GetContentHandler.response.catalog[category], item)
           /\ Updated =>
                /\ GetCategoryHandler(request.body.category).response.status = 200
                /\ Contains(GetCategoryHandler(request.body.category).response.data,
                            item)

C1_Witness ==
    /\ request.method = "POST" /\ response.status = 200
    /\ request.body.category = "Basic"
    /\ Len(contentData.basic) > 0
    /\ contentData.basic[Len(contentData.basic)].category = "basic"

-----------------------------------------------------------------------------
(* C2: PUT and DELETE on an id that matches no item respond 404 and leave    *)
(* the in-memory catalog and the catalog file as they were.                  *)

C2_UnknownIdIs404 ==
    [][(/\ PutStep \/ DeleteStep
        /\ Admitted(request')
        /\ ~Matches(contentData, ParseInt(request'.param)))
       => (/\ response'.status = 404
           /\ contentData' = contentData
           /\ dataFile' = dataFile)]_vars

-----------------------------------------------------------------------------
(* C3: on every mutating endpoint a request without a valid token gets 401,  *)
(* one with a valid non-admin token gets 403, and in both cases no file is   *)
(* stored and the catalog and its file are unchanged.                        *)

C3_MutationsAreGated ==
    [][(MutatingStep /\ Verify(request'.token).role # "admin")
       => (/\ response'.status
                = (IF Verify(request'.token) = NoUser THEN 401 ELSE 403)
           /\ contentData' = contentData
           /\ dataFile' = dataFile
           /\ uploads' = uploads)]_vars

-----------------------------------------------------------------------------
(* C4: no two items of the catalog, both buckets taken together, have the    *)
(* same id (stated for server-updated.js).                                   *)

C4_IdsAreUnique ==
    Updated =>
       /\ \A b \in Categories : \A i, j \in 1..Len(contentData[b]) :
             contentData[b][i].id = contentData[b][j].id => i = j
       /\ \A i \in 1..Len(contentData.basic) :
             \A j \in 1..Len(contentData.advanced) :
                contentData.basic[i].id # contentData.advanced[j].id

-----------------------------------------------------------------------------
(* C5: a request to a mutating endpoint either responds with success, having *)
(* applied its effect in memory and written it to the file, or responds with *)
(* an error, having changed neither the catalog nor the file (stated for     *)
(* server-updated.js).                                                       *)

Applied ==
    \/ contentData' # contentData
    \/ request'.method = "PUT" /\ Matches(contentData, ParseInt(request'.param))

C5_NoPartialSuccess ==
    [][(Updated /\ MutatingStep)
       => \/ /\ response'.status = 200
             /\ Applied
             /\ dataFile'.state = "json"
             /\ dataFile'.text = Stringify(contentData')
          \/ /\ response'.status # 200
             /\ contentData' = contentData
             /\ dataFile' = dataFile]_vars

-----------------------------------------------------------------------------
(* C6: in server-updated.js, after every mutating request that responds with *)
(* success the file holds the in-memory catalog, and starting the process    *)
(* again from a file that holds the catalog yields the same buckets with the *)
(* same items in the same order with the same field values; while no file    *)
(* exists the catalog starts empty, and the file first appears in a step     *)
(* that mutates the catalog.                                                 *)

\* the file holds the catalog and loads back to it
Mirrored ==
    /\ dataFile.state = "json"
    /\ dataFile.text = Stringify(contentData)
    /\ DeepEqual(LoadData(dataFile), contentData)

C6_FileMirrorsCatalog ==
    /\ dataFile.state = "absent" => contentData = EmptyCatalog
    /\ [](Updated /\ Mutating(request) /\ response.status = 200 => Mirrored)
    /\ [][Updated =>
            /\ (Restarted /\ dataFile.state = "absent")
                 => contentData' = EmptyCatalog /\ dataFile' = dataFile
            /\ (dataFile.state = "absent" /\ dataFile'.state # "absent")
                 => MutatingStep /\ contentData' # contentData]_vars

\* the saved catalog holds an item whose description is undefined
C6_Witness ==
    /\ Updated /\ Mutating(request) /\ response.status = 200
    /\ Persisted
    /\ \E i \in 1..Len(contentData.basic) :
          /\ "description" \in DOMAIN contentData.basic[i]
          /\ contentData.basic[i].description = Undefined

-----------------------------------------------------------------------------
(* C7: a PUT on an existing id overwrites exactly those of title,            *)
(* description, category and type that the request supplies, stamps          *)
(* updatedAt and updatedBy, leaves the other properties, the bucket and the  *)
(* position of the item and every other item as they were.                   *)

Editable == {"title", "description", "category", "type"}

Kept == {"id", "filename", "originalName", "uploadDate", "uploadedBy"}

\* the frame of an update of list into list2, shared by both readings
UpdateFrame(list, list2, id, req, t) ==
    /\ Len(list2) = Len(list)
    /\ \A j \in 1..Len(list) : j # FindIndex(list, id) => list2[j] = list[j]
    /\ FindIndex(list, id) # 0 =>
          LET old == list[FindIndex(list, id)]
              new == list2[FindIndex(list, id)]
          IN  /\ Field(new, "updatedAt") = ToISOString(t)
              /\ Field(new, "updatedBy") = Verify(req.token).username
              /\ \A k \in Kept : Has(new, k) = Has(old, k)
                                  /\ (Has(old, k) => new[k] = old[k])

\* a supplied property (any value but undefined) replaces the prior one
OverwritesSupplied(list, list2, id, req) ==
    FindIndex(list, id) # 0 =>
        \A k \in Editable :
            Field(list2[FindIndex(list, id)], k)
                = IF req.body[k] # Undefined THEN req.body[k]
                  ELSE Field(list[FindIndex(list, id)], k)

\* a supplied non-empty property replaces the prior one
OverwritesNonEmpty(list, list2, id, req) ==
    FindIndex(list, id) # 0 =>
        \A k \in Editable :
            Field(list2[FindIndex(list, id)], k)
                = IF req.body[k] \notin {Undefined, ""} THEN req.body[k]
                  ELSE Field(list[FindIndex(list, id)], k)

UpdatedExisting ==
    /\ PutStep
    /\ response'.status = 200
    /\ Matches(contentData, ParseInt(request'.param))

C7_OverwritesSupplied ==
    [][UpdatedExisting =>
          \A b \in Categories :
             /\ UpdateFrame(contentData[b], contentData'[b],
                            ParseInt(request'.param), request', now)
             /\ OverwritesSupplied(contentData[b], contentData'[b],
                                   ParseInt(request'.param), request')]_vars

(* C7, amended: a PUT on an existing id overwrites exactly those of title,    *)
(* description, category and type that the request supplies with a non-empty *)
(* value (a property not supplied or supplied empty keeps its prior value),  *)
(* stamps updatedAt and updatedBy on the first item with that id in each     *)
(* bucket, and leaves the other properties, the bucket, the position and     *)
(* every other item as they were.                                            *)

C7_OverwritesNonEmpty ==
    [][UpdatedExisting =>
          \A b \in Categories :
             /\ UpdateFrame(contentData[b], contentData'[b],
                            ParseInt(request'.param), request', now)
             /\ OverwritesNonEmpty(contentData[b], contentData'[b],
                                   ParseInt(request'.param), request')]_vars

\* an item of the basic bucket was given the category advanced and stays there
C7_Witness ==
    /\ request.method = "PUT" /\ response.status = 200
    /\ Len(contentData.basic) = 1
    /\ contentData.basic[1].id = ParseInt(request.param)
    /\ contentData.basic[1].category = "advanced"
    /\ contentData.basic[1].description = "Changed"
    /\ contentData.basic[1].title = "Intro"
    /\ contentData.basic[1].updatedAt = ToISOString(now)
    /\ Len(contentData.advanced) = 1
    /\ contentData.advanced[1].id # ParseInt(request.param)
    /\ "updatedAt" \notin DOMAIN contentData.advanced[1]

-----------------------------------------------------------------------------
(* C8: GET /api/content/:category returns the bucket when the lowercased     *)
(* parameter is "basic" or "advanced" and otherwise responds 404 with the    *)
(* error "Category not found" and no data.                                   *)

C8_UnknownCategoryIs404 ==
    request.path = "/api/content/:category"
    => IF ToLowerCase(request.param) \in Categories
       THEN /\ response.status = 200
            /\ response.data = contentData[ToLowerCase(request.param)]
       ELSE /\ response.status = 404
            /\ response.error = "Category not found"
            /\ response.data = <<>>

-----------------------------------------------------------------------------
(* C9: an upload whose file exceeds the size limit is rejected with a 4xx    *)
(* status; no item is added, the catalog file is unchanged and no file is    *)
(* retained (stated for server-updated.js).                                  *)

C9_OversizedIs4xx ==
    [][(Updated /\ UploadStep /\ request'.file.size > fileSize)
       => (/\ response'.status \in 400..499
           /\ contentData' = contentData
           /\ dataFile' = dataFile
           /\ uploads' = uploads)]_vars

-----------------------------------------------------------------------------
(* C10: a successful DELETE removes the one matching entry: the items with   *)
(* another id stay in their bucket, unchanged and in the same order, and the *)
(* number of items decreases by exactly one (stated for server-updated.js).  *)

Others(list, id) == SelectSeq(list, LAMBDA item : item.id # id)

C10_DeleteRemovesOne ==
    [][(Updated /\ DeleteStep /\ response'.status = 200)
       => (/\ \A b \in Categories :
                 contentData'[b] = Others(contentData[b], ParseInt(request'.param))
           /\ TotalItems(contentData') = TotalItems(contentData) - 1)]_vars

====
